---- MODULE Spec2Model ----
(***************************************************************************)
(* The ReAct step loop of onetwo/agents/react.py: the reply parser         *)
(* react_parse and the controller ReActAgent._sample_single_next_step,     *)
(* is_finished, driven by the base agent's loop.                           *)
(*                                                                         *)
(* Text is a sequence of one-character strings; offsets are 0-based and    *)
(* spans are half-open, as in Python.                                      *)
(***************************************************************************)
EXTENDS Integers, Sequences, FiniteSets, TLC

VARIABLES
  inputs,        \* state.inputs
  updates,       \* state.updates
  max_steps,     \* ReActAgent.max_steps
  config,        \* keyword arguments of react_parse
  environment,   \* the environment argument of _sample_single_next_step
  pc,            \* position of the running call
  force_finish,  \* local force_finish of _sample_single_next_step
  llm_reply,     \* local llm_reply (react_parse: its reply_text)
  next_step,     \* local next_step (react_parse: its result)
  trace,         \* calls made by the current iteration, in order
  iterations,    \* steps appended so far
  request,       \* the inputs argument of initialize_state
  output,        \* the last value returned by extract_output
  prompt_text,   \* the prompt rendered for the current iteration
  state_before,  \* the state the current iteration was given
  env_started,   \* an environment of start_environment is started
  tasks,         \* the trajectories advanced concurrently, by task
  stop_prefix,   \* ReActAgent.stop_prefix
  stop_sequences, \* the stop_sequences argument of the current prompt
  heap,          \* the objects of results.py, by identity
  self_record,   \* the ExperimentResult to_compact_record is called on
  record_compact, \* the ExperimentResult to_compact_record returned
  heap_before,   \* the objects as they were when the call began
  leaf_results   \* the list get_leaf_results returned

\* the state of results.py
results_vars ==
  <<heap, self_record, record_compact, heap_before, leaf_results>>

\* no ExperimentResult exists
NoResults ==
  /\ heap = <<>>
  /\ self_record = 0
  /\ record_compact = 0
  /\ heap_before = <<>>
  /\ leaf_results = <<>>

vars == <<inputs, updates, max_steps, config, environment, pc, force_finish,
          llm_reply, next_step, trace, iterations, request, output,
          prompt_text, state_before, env_started, tasks,
                 stop_prefix, stop_sequences,
                 results_vars>>

(***************************************************************************)
(* Bounds                                                                  *)
(***************************************************************************)
MaxSegs == 4

MaxSteps == 3

MaxConcSteps == 1

MaxDetSegs == 3

MaxStages == 1

MaxNodes == 5

(***************************************************************************)
(* Python values and strings                                               *)
(***************************************************************************)
None == [type |-> "NoneType", val |-> <<>>]

Str(s) == [type |-> "str", val |-> s]

Whitespace == {" ", "\n"}

Min(a, b) == IF a < b THEN a ELSE b

Max(a, b) == IF a < b THEN b ELSE a

\* s[i:j] for 0 <= i, j (Python slice, clamped to the text)
Slice(s, i, j) == SubSeq(s, i + 1, Min(j, Len(s)))

\* text occurs in s at 0-based offset i
OccursAt(pat, s, i) ==
  /\ i + Len(pat) <= Len(s)
  /\ SubSeq(s, i + 1, i + Len(pat)) = pat

Contains(s, pat) == \E i \in 0..Len(s) : OccursAt(pat, s, i)

\* str.strip()
Strip(s) ==
  LET keep == {i \in 1..Len(s) : s[i] \notin Whitespace}
  IN  IF keep = {} THEN <<>>
      ELSE LET lo == CHOOSE i \in keep : \A j \in keep : i <= j
               hi == CHOOSE i \in keep : \A j \in keep : j <= i
           IN  SubSeq(s, lo, hi)

\* s.split(sep)[0], sep non-empty
SplitFirst(s, sep) ==
  LET hits == {i \in 0..Len(s) : OccursAt(sep, s, i)}
  IN  IF hits = {} THEN s
      ELSE Slice(s, 0, CHOOSE i \in hits : \A j \in hits : i <= j)

\* re.search(pattern, reply_text) for a literal pattern, followed by
\* match.span(), or (len, len) when there is no match
MatchSpan(pattern, reply_text) ==
  LET hits == {i \in 0..Len(reply_text) : OccursAt(pattern, reply_text, i)}
  IN  IF hits = {} THEN <<Len(reply_text), Len(reply_text)>>
      ELSE LET start == CHOOSE i \in hits : \A j \in hits : i <= j
           IN  <<start, start + Len(pattern)>>

(***************************************************************************)
(* ReActStep                                                               *)
(***************************************************************************)
\* action: <<>> for None, <<call>> for a FunctionCall; fmt: "None" or a format
ReActStep(is_fin, thought, action, observation, fmt) ==
  [is_finished |-> is_fin, thought |-> thought, action |-> action,
   observation |-> observation, fmt |-> fmt]

FunctionCall(fn, args, kwargs) ==
  [function_name |-> fn, args |-> args, kwargs |-> kwargs]

DefaultStep == ReActStep(FALSE, <<>>, <<>>, None, "None")

\* ReActState: inputs and updates
ReActState(state_inputs, state_updates) ==
  [inputs |-> state_inputs, updates |-> state_updates]

\* no state yet
NoState == ReActState(<<>>, <<>>)

\* nothing returned by extract_output yet
NoOutput == [called |-> FALSE, value |-> None, state |-> NoState]

(***************************************************************************)
(* Markers and parser configuration                                        *)
(***************************************************************************)
ActMarker == <<"[", "A", "c", "t", "]", ":">>

ThoughtMarker == <<"[", "T", "h", "o", "u", "g", "h", "t", "]", ":">>

FinishMarker == <<"[", "F", "i", "n", "i", "s", "h", "]", ":">>

\* ReActAgent.stop_prefix, by default
DefaultStopPrefix == <<>>

FinishName == <<"F", "i", "n", "i", "s", "h">>

ERROR_STRING == <<"#ERROR#">>

ParseConfig(ap, tp, fp, stop) ==
  [action_pattern |-> ap, thought_pattern |-> tp, finish_pattern |-> fp,
   final_stop_sequence |-> stop]

\* final_stop_sequence <<>> stands for None (and for '', equally falsy)
DefaultConfig == ParseConfig(ActMarker, ThoughtMarker, FinishMarker, <<"\n", "\n">>)

NoStopConfig == ParseConfig(ActMarker, ThoughtMarker, FinishMarker, <<>>)

\* a finish pattern that starts like the action pattern
OverlapConfig ==
  ParseConfig(ActMarker, ThoughtMarker, ActMarker \o <<" ">> \o FinishName,
              <<"\n", "\n">>)

Configs == {DefaultConfig, NoStopConfig, OverlapConfig}

(***************************************************************************)
(* Tool-call extractor (llm_tool_use.parse_and_consume_call)               *)
(***************************************************************************)
IdentChars == {"S", "e", "a", "r", "c", "h", "F", "i", "n", "s", "t", "x"}

FirstIndex(s, c) ==
  LET hits == {i \in 1..Len(s) : s[i] = c}
  IN  IF hits = {} THEN 0 ELSE CHOOSE i \in hits : \A j \in hits : i <= j

\* Parses  name(arg)  in Python call syntax at the start of text: the call
\* name, the positional arguments, the keyword arguments and the format;
\* raises ValueError on anything else.  What follows the call is not read.
parse_and_consume_call(text) ==
  LET open  == FirstIndex(text, "(")
      close == FirstIndex(text, ")")
      fn    == SubSeq(text, 1, open - 1)
      arg   == Strip(SubSeq(text, open + 1, close - 1))
      ok    == /\ open > 1
               /\ close > open
               /\ \A i \in 1..(open - 1) : text[i] \in IdentChars
  IN  IF ok
      THEN [raised |-> FALSE, fn |-> fn,
            args |-> IF arg = <<>> THEN <<>> ELSE <<Str(arg)>>,
            kwargs |-> <<>>, fmt |-> "PYTHON", msg |-> <<>>]
      ELSE [raised |-> TRUE, fn |-> <<>>, args |-> <<>>, kwargs |-> <<>>,
            fmt |-> "None", msg |-> <<"Malformed call">>]

(***************************************************************************)
(* react_parse                                                             *)
(***************************************************************************)
\* the ValueError raised when the two marker positions are equal
NotFoundMessage(cfg) ==
  <<"Didn't find ">> \o cfg.action_pattern \o <<" or ">> \o cfg.finish_pattern

\* ErrorStep carrying the format of a call
ErrorStepFormatted(msg) ==
  ReActStep(FALSE, <<>>, <<>>, Str(ERROR_STRING \o <<":", " ">> \o msg), "PYTHON")

\* ErrorStep without the error marker
ErrorStepUnmarked(msg) == ReActStep(FALSE, <<>>, <<>>, Str(msg), "None")

\* the step of the except clause
ErrorStep(msg) ==
  ReActStep(FALSE, <<>>, <<>>, Str(ERROR_STRING \o <<":", " ">> \o msg), "None")

\* ActIsFirst with its operands swapped
ActIsFirstSwapped(act_start, finish_start) == finish_start < act_start

\* line 418: the action marker starts first
ActIsFirst(act_start, finish_start) == act_start < finish_start

\* line 437: the finish marker starts first
FinishIsFirst(act_start, finish_start) == finish_start < act_start

\* ThoughtContent without the strip
ThoughtContentUnstripped(reply_text, thought_start, thought_end, marker_start) ==
  IF thought_start < marker_start
  THEN Slice(reply_text, thought_end, marker_start)
  ELSE <<>>

\* lines 417-421 and 439-440: the thought before the chosen marker
ThoughtContent(reply_text, thought_start, thought_end, marker_start) ==
  IF thought_start < marker_start
  THEN Strip(Slice(reply_text, thought_end, marker_start))
  ELSE <<>>

\* ActionStep that never finishes
ActionStepNeverFinished(call, thought_content) ==
  ReActStep(FALSE, thought_content,
            <<FunctionCall(call.fn, call.args, call.kwargs)>>, None, call.fmt)

\* lines 427-436: the step of an extracted call
ActionStep(call, thought_content) ==
  ReActStep(call.fn = FinishName, thought_content,
            <<FunctionCall(call.fn, call.args, call.kwargs)>>, None, call.fmt)

\* FinalAnswer truncating before the first strip
FinalAnswerTruncateFirst(reply_text, finish_end, final_stop_sequence) ==
  LET final_answer == Slice(reply_text, finish_end, Len(reply_text))
  IN  IF final_stop_sequence # <<>>
      THEN Strip(SplitFirst(final_answer, final_stop_sequence))
      ELSE Strip(final_answer)

\* lines 441-443: the final answer after the finish marker
FinalAnswer(reply_text, finish_end, final_stop_sequence) ==
  LET final_answer == Strip(Slice(reply_text, finish_end, Len(reply_text)))
  IN  IF final_stop_sequence # <<>>
      THEN Strip(SplitFirst(final_answer, final_stop_sequence))
      ELSE final_answer

\* FinishStep that is not finished
FinishStepUnfinished(thought_content, final_answer) ==
  ReActStep(FALSE, thought_content, <<>>, Str(final_answer), "None")

\* lines 444-446: the step of a final answer
FinishStep(thought_content, final_answer) ==
  ReActStep(TRUE, thought_content, <<>>, Str(final_answer), "None")

react_parse(reply_text, cfg) ==
  LET act     == MatchSpan(cfg.action_pattern, reply_text)
      thought == MatchSpan(cfg.thought_pattern, reply_text)
      finish  == MatchSpan(cfg.finish_pattern, reply_text)
      act_start     == act[1]
      act_end       == act[2]
      thought_start == thought[1]
      thought_end   == thought[2]
      finish_start  == finish[1]
      finish_end    == finish[2]
  IN  IF ActIsFirst(act_start, finish_start)
      THEN LET part_after_act ==
                 Strip(Slice(reply_text, act_end, Len(reply_text)))
               call == parse_and_consume_call(part_after_act)
           IN  IF call.raised
               THEN ErrorStep(call.msg)
               ELSE ActionStep(call, ThoughtContent(reply_text, thought_start,
                                                    thought_end, act_start))
      ELSE IF FinishIsFirst(act_start, finish_start)
      THEN FinishStep(ThoughtContent(reply_text, thought_start, thought_end,
                                     finish_start),
                      FinalAnswer(reply_text, finish_end,
                                  cfg.final_stop_sequence))
      ELSE \* None found.
           ErrorStep(NotFoundMessage(cfg))

(***************************************************************************)
(* Reply texts                                                             *)
(***************************************************************************)
Segments ==
  { ThoughtMarker, ActMarker, FinishMarker, <<"t">>, <<" ">>, <<"\n", "\n">>,
    <<"S", "e", "a", "r", "c", "h", "(", "x", ")">>,
    FinishName \o <<"(", "x", ")">> }

RECURSIVE TextsOfLen(_)
TextsOfLen(n) ==
  IF n = 0 THEN {<<>>}
  ELSE {s \o t : s \in Segments, t \in TextsOfLen(n - 1)}

Texts == UNION {TextsOfLen(n) : n \in 0..MaxSegs}

(***************************************************************************)
(* The parser alone: every text under every configuration                  *)
(***************************************************************************)
ParseInit ==
  /\ NoResults
  /\ inputs = <<>>
  /\ updates = <<>>
  /\ max_steps = 0
  /\ environment = "env"
  /\ force_finish = FALSE
  /\ trace = <<>>
  /\ iterations = 0
  /\ config \in Configs
  /\ llm_reply \in Texts
  /\ next_step = DefaultStep
  /\ pc = "parse"
  /\ request = <<>>
  /\ output = NoOutput
  /\ prompt_text = <<>>
  /\ stop_prefix = DefaultStopPrefix
  /\ stop_sequences = <<>>
  /\ state_before = NoState
  /\ env_started = FALSE
  /\ tasks = <<>>

Parse ==
  /\ pc = "parse"
  /\ next_step' = react_parse(llm_reply, config)
  /\ pc' = "parsed"
  /\ UNCHANGED <<inputs, updates, max_steps, config, environment,
                 force_finish, llm_reply, trace, iterations,
                 request, output, prompt_text, state_before, env_started,
                 tasks,
                 stop_prefix, stop_sequences,
                 results_vars>>

ParseNext == Parse

ParseSpec == ParseInit /\ [][ParseNext]_vars

(***************************************************************************)
(* The parser called repeatedly (DetSpec): a call, possibly another call   *)
(* on another text, then the first call again                              *)
(***************************************************************************)
DetTexts == UNION {TextsOfLen(n) : n \in 0..MaxDetSegs}

\* the texts of the call in between: one parsed to a thought and an action,
\* one to an error step
DetOtherTexts ==
  { ThoughtMarker \o <<" ", "u", "\n">> \o ActMarker \o <<" ">>
      \o <<"S", "e", "a", "r", "c", "h", "(", "x", ")">>,
    <<"u">> }

\* one call of react_parse, as the caller sees it
ParseCall(text, cfg, result) == [text |-> text, config |-> cfg, result |-> result]

DetInit ==
  /\ NoResults
  /\ inputs = <<>>
  /\ updates = <<>>
  /\ max_steps = 0
  /\ environment = "env"
  /\ force_finish = FALSE
  /\ trace = <<>>
  /\ iterations = 0
  /\ config \in Configs
  /\ llm_reply \in DetTexts
  /\ next_step = DefaultStep
  /\ pc = "det"
  /\ request = <<>>
  /\ output = NoOutput
  /\ prompt_text = <<>>
  /\ stop_prefix = DefaultStopPrefix
  /\ stop_sequences = <<>>
  /\ state_before = NoState
  /\ env_started = FALSE
  /\ tasks = <<>>

DetFrame ==
  UNCHANGED <<inputs, updates, max_steps, config, environment, force_finish,
              iterations, request, output, prompt_text, state_before,
              env_started, tasks, stop_prefix, stop_sequences,
                 results_vars>>

\* DetParse with the thought of the previous result kept when the new
\* result has none
DetParseRemembering(text) ==
  /\ LET result == react_parse(text, config)
     IN  next_step' = IF result.thought = <<>>
                      THEN [result EXCEPT !.thought = next_step.thought]
                      ELSE result
  /\ llm_reply' = text
  /\ trace' = Append(trace, ParseCall(text, config, next_step'))

\* lines 362-455: a call of react_parse on text; its result replaces the
\* result of the call before
DetParse(text) ==
  /\ next_step' = react_parse(text, config)
  /\ llm_reply' = text
  /\ trace' = Append(trace, ParseCall(text, config, next_step'))

\* the first call
DetFirst ==
  /\ pc = "det"
  /\ DetParse(llm_reply)
  /\ pc' = "first"
  /\ DetFrame

\* a call on another text
DetOther(text) ==
  /\ pc = "first"
  /\ text # llm_reply
  /\ DetParse(text)
  /\ pc' = "other"
  /\ DetFrame

\* the first call again
DetRepeat ==
  /\ pc \in {"first", "other"}
  /\ DetParse(trace[1].text)
  /\ pc' = "repeated"
  /\ DetFrame

DetNext ==
  \/ DetFirst
  \/ \E text \in DetOtherTexts : DetOther(text)
  \/ DetRepeat

DetSpec == DetInit /\ [][DetNext]_vars

(***************************************************************************)
(* The step loop                                                           *)
(***************************************************************************)
Inputs == {<<"q">>, <<"r">>}

Search == <<"S", "e", "a", "r", "c", "h", "(", "x", ")">>

\* what the model may reply in an iteration
Replies ==
  { <<" ">> \o ThoughtMarker \o <<" ", "t", "\n">> \o ActMarker \o <<" ">>
      \o Search \o <<"\n">>,
    ActMarker \o <<" ">> \o FinishName \o <<"(", "x", ")">>,
    FinishMarker \o <<" ", "t", "\n", "\n">> \o ActMarker \o <<" ">> \o Search,
    <<"t", " ">>,
    ThoughtMarker \o <<"t">> \o ActMarker \o <<" ", "t">> }

\* what run_tool may return
ToolValues == {None, Str(<<"o">>)}

Event(call, fn, args, kwargs, value) ==
  [call |-> call, fn |-> fn, args |-> args, kwargs |-> kwargs, value |-> value]

PromptEvent == Event("prompt", <<>>, <<>>, <<>>, None)

ReplyEvent(reply) == Event("reply", <<>>, <<>>, <<>>, Str(reply))

ParseEvent == Event("parse", <<>>, <<>>, <<>>, None)

RunToolEvent(action) ==
  Event("run_tool", action.function_name, action.args, action.kwargs, None)

ToolResultEvent(value) == Event("tool_result", <<>>, <<>>, <<>>, value)

ToolRaisedEvent == Event("tool_raised", <<>>, <<>>, <<>>, None)

\* is_finished looking at the first step for the last
is_finished_first(state_updates) ==
  /\ Len(state_updates) > 0
  /\ state_updates[1].is_finished

\* is_finished looking only at whether there is a step
is_finished_nonempty(state_updates) == Len(state_updates) > 0

\* ReActAgent.is_finished
is_finished(state_updates) ==
  /\ Len(state_updates) > 0
  /\ state_updates[Len(state_updates)].is_finished

\* the loop runs an iteration only while the state is not finished
Running(state_updates) == ~is_finished(state_updates)

\* the test of line 562 left out
EnvironmentMissingNever(env) == FALSE

\* line 562
EnvironmentMissing(env) == env = "None"

\* ForceFinish taking a budget that is not positive for no budget
ForceFinishPositive(state_updates, n) == n > 0 /\ Len(state_updates) >= n

\* ForceFinish one step early
ForceFinishEarly(state_updates, n) == Len(state_updates) + 1 >= n

\* ForceFinish with > for >=
ForceFinishLate(state_updates, n) == Len(state_updates) > n

\* line 566
ForceFinish(state_updates, n) == Len(state_updates) >= n

\* line 577
NormalizeReply(reply) == Strip(reply) \o <<"\n">>

\* ForcedStep marked by a format of its own
ForcedStepFormatted(reply) ==
  ReActStep(TRUE, <<>>, <<>>, Str(Strip(reply)), "PYTHON")

\* ForcedStep without the strip
ForcedStepUnstripped(reply) == ReActStep(TRUE, <<>>, <<>>, Str(reply), "None")

\* lines 579-584
ForcedStep(reply) == ReActStep(TRUE, <<>>, <<>>, Str(Strip(reply)), "None")

\* HasAction skipping the tool of a finished step
HasActionUnlessFinished(step) == step.action # <<>> /\ ~step.is_finished

\* line 589
HasAction(step) == step.action # <<>>

\* WithObservation leaving a finished step as parsed
WithObservationUnlessFinished(step, value) ==
  IF step.is_finished THEN step ELSE [step EXCEPT !.observation = value]

\* lines 593-597
WithObservation(step, value) == [step EXCEPT !.observation = value]

\* ReActAgent.initialize_state
initialize_state(state_inputs) == ReActState(state_inputs, <<>>)

(***************************************************************************)
(* The default prompt (DEFAULT_REACT_PROMPT_TEXT), up to the model's turn  *)
(***************************************************************************)
\* the stop prefixes an agent may be constructed with
StopPrefixes == {DefaultStopPrefix, <<"#">>}

\* _get_stop_sequences ignoring the prefix
get_stop_sequences_default(prefix) ==
  << <<"[", "Q", "u", "e", "s", "t", "i", "o", "n", "]">>,
     <<"[", "O", "b", "s", "e", "r", "v", "e", "]">> >>

\* ReActAgent._get_stop_sequences
get_stop_sequences(prefix) ==
  IF prefix # <<>>
  THEN << <<"[">> \o prefix >>
  ELSE << <<"[", "Q", "u", "e", "s", "t", "i", "o", "n", "]">>,
          <<"[", "O", "b", "s", "e", "r", "v", "e", "]">> >>

\* the tools and the exemplars (none by default) of the preamble
Preamble ==
  <<"Here is a list of available tools:\n",
    "Here are examples of how different tasks can be solved with these tools:\n">>

\* truth of a value in a template condition
Truthy(value) == value.type # "NoneType" /\ value.val # <<>>

\* ReActStep.render_action for a step with an action: name(args)
render_action(step) ==
  LET call == step.action[1]
  IN  call.function_name \o <<"(">>
        \o (IF call.args = <<>> THEN <<>> ELSE call.args[1].val) \o <<")">>

\* ReActStep.render_observation
render_observation(step) ==
  IF step.observation.type = "NoneType"
  THEN <<"N", "o", "n", "e">>
  ELSE step.observation.val

\* lines 141-152: one step of the state
RenderStep(step, prefix) ==
  (IF step.thought # <<>>
   THEN ThoughtMarker \o <<" ">> \o step.thought \o <<"\n">>
   ELSE <<>>)
  \o (IF step.action # <<>>
      THEN ActMarker \o <<" ">> \o render_action(step) \o <<"\n">>
      ELSE <<>>)
  \o (IF Truthy(step.observation) /\ step.action # <<>>
      THEN <<"[">> \o prefix \o <<"O", "b", "s", "e", "r", "v", "e", "]", ":", " ">>
             \o render_observation(step) \o <<"\n">>
      ELSE <<>>)
  \o (IF step.is_finished /\ Truthy(step.observation) /\ step.action = <<>>
      THEN FinishMarker \o <<" ">> \o step.observation.val \o <<"\n">>
      ELSE <<>>)

RECURSIVE RenderSteps(_, _)
RenderSteps(state_updates, prefix) ==
  IF state_updates = <<>> THEN <<>>
  ELSE RenderStep(Head(state_updates), prefix)
         \o RenderSteps(Tail(state_updates), prefix)

\* lines 99-158: the prompt the model completes
RenderPrompt(state, prefix, forced) ==
  Preamble
  \o <<"[">> \o prefix \o <<"Q", "u", "e", "s", "t", "i", "o", "n", "]", ":", " ">>
  \o state.inputs \o <<"\n">>
  \o RenderSteps(state.updates, prefix)
  \o (IF forced THEN FinishMarker \o <<" ">> ELSE <<>>)

\* str(value)
PyStr(value) ==
  IF value.type = "NoneType" THEN <<"N", "o", "n", "e">> ELSE value.val

\* extract_output returning None itself, not its string form, for a state
\* that is not finished
extract_output_optional(state_updates) ==
  IF Len(state_updates) > 0 /\ state_updates[Len(state_updates)].is_finished
  THEN Str(PyStr(state_updates[Len(state_updates)].observation))
  ELSE None

\* extract_output without the test of is_finished
extract_output_last(state_updates) ==
  LET answer == IF Len(state_updates) > 0
                THEN state_updates[Len(state_updates)].observation
                ELSE None
  IN  Str(PyStr(answer))

\* ReActAgent.extract_output
extract_output(state_updates) ==
  LET answer == IF /\ Len(state_updates) > 0
                   /\ state_updates[Len(state_updates)].is_finished
                THEN state_updates[Len(state_updates)].observation
                ELSE None
  IN  Str(PyStr(answer))

\* the agent is constructed; no state exists yet
Init ==
  /\ NoResults
  /\ request \in Inputs
  /\ inputs = NoState.inputs
  /\ updates = NoState.updates
  /\ max_steps \in (-1)..MaxSteps
  /\ config = DefaultConfig
  /\ environment \in {"env", "None"}
  /\ pc = "new"
  /\ force_finish = FALSE
  /\ llm_reply = <<>>
  /\ next_step = DefaultStep
  /\ trace = <<>>
  /\ iterations = 0
  /\ output = NoOutput
  /\ prompt_text = <<>>
  /\ stop_prefix \in StopPrefixes
  /\ stop_sequences = <<>>
  /\ state_before = NoState
  /\ env_started = FALSE
  /\ tasks = <<>>

\* the environment released on a normal exit only
EnvAfterExitNormalOnly(started, how) == IF how = "normal" THEN FALSE ELSE started

\* lines 537-540: the with statement releases the environment however the
\* block is left ("normal", "raised" or "cancelled")
EnvAfterExit(started, how) == FALSE

\* the caller enters start_environment: lines 537-540, up to the yield
StartEnvironment ==
  /\ pc = "new"
  /\ environment = "env"
  /\ env_started' = TRUE
  /\ pc' = "started"
  /\ UNCHANGED <<inputs, updates, max_steps, config, environment,
                 force_finish, llm_reply, next_step, trace, iterations,
                 request, output, prompt_text, state_before, tasks,
                 stop_prefix, stop_sequences,
                 results_vars>>

\* the caller creates the state of the task; a caller that passes no
\* environment has started none
InitializeState ==
  /\ \/ pc = "started"
     \/ pc = "new" /\ environment = "None"
  /\ inputs' = initialize_state(request).inputs
  /\ updates' = initialize_state(request).updates
  /\ pc' = "idle"
  /\ UNCHANGED <<max_steps, config, environment, force_finish, llm_reply,
                 next_step, trace, iterations, request, output, prompt_text,
                 state_before, env_started, tasks,
                 stop_prefix, stop_sequences,
                 results_vars>>

\* the loop calls _sample_single_next_step while the state is not finished;
\* the call runs up to its first await, the prompt
SampleStart ==
  /\ pc = "idle"
  /\ Running(updates)
  /\ ~EnvironmentMissing(environment)
  /\ force_finish' = ForceFinish(updates, max_steps)
  /\ stop_sequences' = get_stop_sequences(stop_prefix)
  /\ prompt_text' = RenderPrompt(ReActState(inputs, updates),
                                 stop_prefix, force_finish')
  /\ state_before' = ReActState(inputs, updates)
  /\ trace' = <<PromptEvent>>
  /\ pc' = "prompt"
  /\ UNCHANGED <<inputs, updates, max_steps, config, environment, llm_reply,
                 next_step, iterations, request, output, env_started, tasks,
                 stop_prefix,
                 results_vars>>

\* lines 562-563: no environment
SampleNoEnvironment ==
  /\ pc = "idle"
  /\ Running(updates)
  /\ EnvironmentMissing(environment)
  /\ state_before' = ReActState(inputs, updates)
  /\ trace' = <<>>
  /\ pc' = "raised"
  /\ UNCHANGED <<inputs, updates, max_steps, config, environment,
                 force_finish, llm_reply, next_step, iterations,
                 request, output, prompt_text, env_started, tasks,
                 stop_prefix, stop_sequences,
                 results_vars>>

\* PromptReturn returning the step without awaiting run_tool
PromptReturnNoAwait(reply) ==
  /\ pc = "prompt"
  /\ llm_reply' = NormalizeReply(reply)
  /\ IF force_finish
     THEN /\ next_step' = ForcedStep(llm_reply')
          /\ trace' = Append(trace, ReplyEvent(reply))
     ELSE LET parsed == react_parse(llm_reply', config)
          IN  /\ next_step' = parsed
              /\ IF HasAction(parsed)
                 THEN trace' = trace \o <<ReplyEvent(reply), ParseEvent,
                                           RunToolEvent(parsed.action[1])>>
                 ELSE trace' = trace \o <<ReplyEvent(reply), ParseEvent>>
  /\ pc' = "return"
  /\ UNCHANGED <<inputs, updates, max_steps, config, environment,
                 force_finish, iterations, request, output, prompt_text,
                 state_before, env_started, tasks,
                 stop_prefix, stop_sequences,
                 results_vars>>

\* the prompt returns the model's reply: lines 577-592, up to the await of
\* run_tool or to the return
PromptReturn(reply) ==
  /\ pc = "prompt"
  /\ llm_reply' = NormalizeReply(reply)
  /\ IF force_finish
     THEN /\ next_step' = ForcedStep(llm_reply')
          /\ trace' = Append(trace, ReplyEvent(reply))
          /\ pc' = "return"
     ELSE LET parsed == react_parse(llm_reply', config)
          IN  /\ next_step' = parsed
              /\ IF HasAction(parsed)
                 THEN /\ trace' = trace \o <<ReplyEvent(reply), ParseEvent,
                                              RunToolEvent(parsed.action[1])>>
                      /\ pc' = "tool"
                 ELSE /\ trace' = trace \o <<ReplyEvent(reply), ParseEvent>>
                      /\ pc' = "return"
  /\ UNCHANGED <<inputs, updates, max_steps, config, environment,
                 force_finish, iterations,
                 request, output, prompt_text, state_before, env_started,
                 tasks,
                 stop_prefix, stop_sequences,
                 results_vars>>

\* ToolReturn with the tool result written into the last step of the state
\* as well
ToolReturnIntoState(value) ==
  /\ pc = "tool"
  /\ next_step' = WithObservation(next_step, value)
  /\ updates' = IF updates = <<>>
                 THEN updates
                 ELSE [updates EXCEPT ![Len(updates)] =
                         WithObservation(@, value)]
  /\ trace' = Append(trace, ToolResultEvent(value))
  /\ pc' = "return"
  /\ UNCHANGED <<inputs, max_steps, config, environment, force_finish,
                 llm_reply, iterations, request, output, prompt_text,
                 state_before, env_started, tasks,
                 stop_prefix, stop_sequences,
                 results_vars>>

\* run_tool returns: lines 593-598
ToolReturn(value) ==
  /\ pc = "tool"
  /\ next_step' = WithObservation(next_step, value)
  /\ trace' = Append(trace, ToolResultEvent(value))
  /\ pc' = "return"
  /\ UNCHANGED <<inputs, updates, max_steps, config, environment,
                 force_finish, llm_reply, iterations,
                 request, output, prompt_text, state_before, env_started,
                 tasks,
                 stop_prefix, stop_sequences,
                 results_vars>>

\* ToolRaise with the failure caught and returned as an observation
ToolRaiseRecovered ==
  /\ pc = "tool"
  /\ next_step' = WithObservation(next_step, Str(ERROR_STRING))
  /\ trace' = Append(trace, ToolRaisedEvent)
  /\ pc' = "return"
  /\ UNCHANGED <<inputs, updates, max_steps, config, environment,
                 force_finish, llm_reply, iterations, request, output,
                 prompt_text, state_before, env_started, tasks,
                 stop_prefix, stop_sequences,
                 results_vars>>

\* run_tool raises: nothing catches it (lines 593-597), and the failure
\* leaves the caller's block of start_environment
ToolRaise ==
  /\ pc = "tool"
  /\ trace' = Append(trace, ToolRaisedEvent)
  /\ env_started' = EnvAfterExit(env_started, "raised")
  /\ pc' = "raised"
  /\ UNCHANGED <<inputs, updates, max_steps, config, environment,
                 force_finish, llm_reply, next_step, iterations, request,
                 output, prompt_text, state_before, tasks,
                 stop_prefix, stop_sequences,
                 results_vars>>

\* a caller extracts the output of the state as it stands, between
\* iterations or after the run has failed
ExtractOutput ==
  /\ pc \in {"idle", "raised"}
  /\ output' = [called |-> TRUE, value |-> extract_output(updates),
                state |-> ReActState(inputs, updates)]
  /\ UNCHANGED <<inputs, updates, max_steps, config, environment, pc,
                 force_finish, llm_reply, next_step, trace, iterations,
                 request, prompt_text, state_before, env_started, tasks,
                 stop_prefix, stop_sequences,
                 results_vars>>

\* the surrounding task is cancelled while the call is suspended in the
\* prompt or in run_tool: CancelledError is raised at the await, nothing
\* catches it, and it leaves the caller's block of start_environment
Cancel ==
  /\ pc \in {"prompt", "tool"}
  /\ env_started' = EnvAfterExit(env_started, "cancelled")
  /\ pc' = "cancelled"
  /\ UNCHANGED <<inputs, updates, max_steps, config, environment,
                 force_finish, llm_reply, next_step, trace, iterations,
                 request, output, prompt_text, state_before, tasks,
                 stop_prefix, stop_sequences,
                 results_vars>>

\* the loop appends the returned step to the state; once the state is
\* finished the loop ends and the caller's block of start_environment is
\* left
AppendStep ==
  /\ pc = "return"
  /\ updates' = Append(updates, next_step)
  /\ iterations' = iterations + 1
  /\ env_started' = IF is_finished(updates')
                     THEN EnvAfterExit(env_started, "normal")
                     ELSE env_started
  /\ pc' = "idle"
  /\ UNCHANGED <<inputs, max_steps, config, environment, force_finish,
                 llm_reply, next_step, trace, request, output, prompt_text,
                 state_before, tasks,
                 stop_prefix, stop_sequences,
                 results_vars>>

Next ==
  \/ StartEnvironment
  \/ InitializeState
  \/ SampleStart
  \/ SampleNoEnvironment
  \/ \E reply \in Replies : PromptReturn(reply)
  \/ \E value \in ToolValues : ToolReturn(value)
  \/ ToolRaise
  \/ Cancel
  \/ AppendStep
  \/ ExtractOutput

Spec == Init /\ [][Next]_vars

(***************************************************************************)
(* _sample_single_next_step called directly (DirectSpec): a caller other   *)
(* than the loop calls it once on a state the loop can have produced,      *)
(* finished or not                                                         *)
(***************************************************************************)
\* an action step with its observation, and the step of a final answer
SearchedStep ==
  WithObservation(ActionStep(parse_and_consume_call(Search), <<>>),
                  Str(<<"o">>))

AnsweredStep == FinishStep(<<>>, <<"t">>)

\* the updates of the states given to the call
DirectUpdates ==
  { <<>>, <<SearchedStep>>, <<AnsweredStep>>, <<SearchedStep, AnsweredStep>> }

DirectInit ==
  /\ NoResults
  /\ request \in Inputs
  /\ inputs = request
  /\ updates \in DirectUpdates
  /\ max_steps \in 0..MaxSteps
  /\ config = DefaultConfig
  /\ environment = "env"
  /\ pc = "idle"
  /\ force_finish = FALSE
  /\ llm_reply = <<>>
  /\ next_step = DefaultStep
  /\ trace = <<>>
  /\ iterations = Len(updates)
  /\ output = NoOutput
  /\ prompt_text = <<>>
  /\ stop_prefix = DefaultStopPrefix
  /\ stop_sequences = <<>>
  /\ state_before = NoState
  /\ env_started = TRUE
  /\ tasks = <<>>

\* SampleDirect refusing a finished state
SampleDirectRefusing ==
  /\ Running(updates)
  /\ SampleStart

\* lines 562-574, called on whatever state it is given
SampleDirect ==
  /\ pc = "idle"
  /\ ~EnvironmentMissing(environment)
  /\ force_finish' = ForceFinish(updates, max_steps)
  /\ stop_sequences' = get_stop_sequences(stop_prefix)
  /\ prompt_text' = RenderPrompt(ReActState(inputs, updates),
                                 stop_prefix, force_finish')
  /\ state_before' = ReActState(inputs, updates)
  /\ trace' = <<PromptEvent>>
  /\ pc' = "prompt"
  /\ UNCHANGED <<inputs, updates, max_steps, config, environment, llm_reply,
                 next_step, iterations, request, output, env_started, tasks,
                 stop_prefix,
                 results_vars>>

DirectNext ==
  \/ SampleDirect
  \/ \E reply \in Replies : PromptReturn(reply)
  \/ \E value \in ToolValues : ToolReturn(value)

DirectSpec == DirectInit /\ [][DirectNext]_vars

(***************************************************************************)
(* Properties of the step loop (Spec)                                      *)
(***************************************************************************)
IterationBound == Max(max_steps, 0) + 1

\* the last completed iteration took the forced-finish path: it prompted
\* and neither parsed nor ran a tool
LastWasForced ==
  /\ pc = "idle"
  /\ iterations > 0
  /\ Len(trace) = 2
  /\ trace[1] = PromptEvent
  /\ trace[2].call = "reply"

\* C1 as stated: FINISHED is reached after at most max_steps + 1
\* iterations, and by the forced-finish path at exactly iteration
\* max_steps + 1.
C1_AtMostNPlusOne ==
  /\ iterations <= max_steps + 1
  /\ LastWasForced => iterations = max_steps + 1

\* C1 (amended): with N = max_steps, the loop never runs more than
\* max(N, 0) + 1 iterations; after max(N, 0) + 1 iterations the state is
\* FINISHED and that last iteration was the forced finish; and a forced
\* finish happens at no other iteration, so a loop whose parsed steps never
\* finish is FINISHED at exactly iteration max(N, 0) + 1.
C1_BoundedTermination ==
  /\ iterations <= IterationBound
  /\ iterations = IterationBound => is_finished(updates) /\ LastWasForced
  /\ LastWasForced => iterations = IterationBound /\ is_finished(updates)
  /\ pc = "idle" /\ environment # "None" /\ ~is_finished(updates)
       => ENABLED SampleStart

C1_Witness ==
  /\ max_steps >= 2
  /\ iterations = max_steps + 1
  /\ is_finished(updates)
  /\ LastWasForced
  /\ \A i \in 1..max_steps : ~updates[i].is_finished

\* C2: in every reachable trajectory a finished step is the last element of
\* updates, so nothing is appended after a finished step.
C2_FinishedIsLast ==
  \A i \in 1..Len(updates) : updates[i].is_finished => i = Len(updates)

\* a premature finish: the model finished by itself before the budget
C2_Witness ==
  /\ Len(updates) >= 2
  /\ Len(updates) <= max_steps
  /\ updates[Len(updates)].is_finished
  /\ pc = "idle"

\* C3: in an iteration with len(updates) >= max_steps the returned step is
\* finished, with empty thought, no action and the trimmed reply as its
\* observation, and the iteration neither parses nor runs a tool.
C3_ForcedStep ==
  pc \in {"tool", "return"} /\ Len(updates) >= max_steps =>
    /\ pc = "return"
    /\ Len(trace) = 2
    /\ trace[1] = PromptEvent
    /\ trace[2].call = "reply"
    /\ next_step = ReActStep(TRUE, <<>>, <<>>,
                             Str(Strip(trace[2].value.val)), "None")
    /\ LET o == next_step.observation.val
       IN  o # <<>> => o[1] \notin Whitespace /\ o[Len(o)] \notin Whitespace

\* a forced finish on a reply that holds an action marker
C3_Witness ==
  /\ pc = "return"
  /\ Len(updates) >= max_steps
  /\ Len(updates) >= 1
  /\ Contains(llm_reply, ActMarker)
  /\ llm_reply # next_step.observation.val

\* C10: in an iteration that is not forced, a parsed step with an action
\* makes exactly one run_tool call, with the call's name, positional and
\* keyword arguments, and the returned step is the parsed step with the
\* tool's value as its observation; a parsed step without an action makes
\* no run_tool call and is returned as parsed.
C10_ToolCall ==
  pc \in {"tool", "return"} /\ ~(Len(updates) >= max_steps) =>
    LET parsed == react_parse(llm_reply, config)
        called == <<PromptEvent, trace[2], ParseEvent,
                    RunToolEvent(parsed.action[1])>>
    IN  /\ llm_reply = Strip(trace[2].value.val) \o <<"\n">>
        /\ IF parsed.action # <<>>
           THEN \/ /\ pc = "tool"
                   /\ trace = called
                   /\ next_step = parsed
                \/ /\ pc = "return"
                   /\ Len(trace) = 5
                   /\ SubSeq(trace, 1, 4) = called
                   /\ trace[5].call = "tool_result"
                   /\ next_step = [parsed EXCEPT !.observation = trace[5].value]
           ELSE /\ pc = "return"
                /\ trace = <<PromptEvent, trace[2], ParseEvent>>
                /\ next_step = parsed

\* a finished step with an action whose tool has returned a value
C10_Witness ==
  /\ pc = "return"
  /\ ~force_finish
  /\ next_step.action # <<>>
  /\ next_step.is_finished
  /\ next_step.observation = Str(<<"o">>)
  /\ Len(updates) >= 1
  /\ updates[1].action = <<>>

\* C11: is_finished(state) is true exactly when updates is non-empty and its
\* last step is finished; the state initialize_state returns has the given
\* inputs and empty updates, and is RUNNING.
C11_IsFinished ==
  /\ is_finished(updates)
       <=> (updates # <<>> /\ updates[Len(updates)].is_finished)
  /\ pc = "idle" /\ iterations = 0
       => /\ inputs = request
          /\ updates = <<>>
          /\ ~is_finished(updates)
          /\ Running(updates)

\* a finished state whose first step is not finished
C11_Witness ==
  /\ pc = "idle"
  /\ inputs = request
  /\ Len(updates) >= 2
  /\ ~updates[1].is_finished
  /\ is_finished(updates)

\* C12: on a state that is not FINISHED extract_output returns the text
\* "None", which is the observation of no step of the trajectory; on a
\* FINISHED state it returns the string form of the last observation.
C12_ExtractOutput ==
  output.called =>
    LET u == output.state.updates
        finished == u # <<>> /\ u[Len(u)].is_finished
    IN  /\ output.value.type = "str"
        /\ finished =>
             output.value.val
               = IF u[Len(u)].observation.type = "NoneType"
                 THEN <<"N", "o", "n", "e">>
                 ELSE u[Len(u)].observation.val
        /\ ~finished =>
             /\ output.value.val = <<"N", "o", "n", "e">>
             /\ \A i \in 1..Len(u) :
                  u[i].observation.type = "str"
                    => output.value # u[i].observation

\* the output asked of a state whose last step is not finished and holds a
\* tool's value
C12_Witness ==
  /\ output.called
  /\ output.state.updates # <<>>
  /\ output.state = ReActState(inputs, updates)
  /\ ~updates[Len(updates)].is_finished
  /\ updates[Len(updates)].observation = Str(<<"o">>)
  /\ output.value = Str(<<"N", "o", "n", "e">>)

(***************************************************************************)
(* Properties of react_parse (ParseSpec)                                   *)
(***************************************************************************)
\* the parser has returned next_step for llm_reply under config
Parsed == pc = "parsed"

ActStart == MatchSpan(config.action_pattern, llm_reply)[1]

ActEnd == MatchSpan(config.action_pattern, llm_reply)[2]

FinishStart == MatchSpan(config.finish_pattern, llm_reply)[1]

FinishEnd == MatchSpan(config.finish_pattern, llm_reply)[2]

ThoughtStart == MatchSpan(config.thought_pattern, llm_reply)[1]

ThoughtEnd == MatchSpan(config.thought_pattern, llm_reply)[2]

\* what the extractor makes of the text after the action marker
ExtractedCall ==
  parse_and_consume_call(Strip(Slice(llm_reply, ActEnd, Len(llm_reply))))

\* the text after the finish marker, as it stands in the reply
AfterFinish == Slice(llm_reply, FinishEnd, Len(llm_reply))

IsPrefix(p, s) == Len(p) <= Len(s) /\ SubSeq(s, 1, Len(p)) = p

Trimmed(s) == s # <<>> => s[1] \notin Whitespace /\ s[Len(s)] \notin Whitespace

ActionFirst == ActStart < FinishStart

FinishFirst == FinishStart < ActStart

\* C4: every validation failure (neither marker in the text, or the
\* extractor rejecting the call after the action marker) yields a step that
\* is not finished, has no action, and whose observation is the error marker,
\* ": " and the failure description.
C4_RecoveredError ==
  Parsed =>
    /\ ~Contains(llm_reply, config.action_pattern)
         /\ ~Contains(llm_reply, config.finish_pattern)
       => /\ ~next_step.is_finished
          /\ next_step.action = <<>>
          /\ next_step.observation
               = Str(ERROR_STRING \o <<":", " ">> \o NotFoundMessage(config))
    /\ ActionFirst /\ ExtractedCall.raised
       => /\ ~next_step.is_finished
          /\ next_step.action = <<>>
          /\ next_step.observation
               = Str(ERROR_STRING \o <<":", " ">> \o ExtractedCall.msg)

\* a thought and an action marker followed by a malformed call
C4_Witness ==
  /\ Parsed
  /\ ActionFirst
  /\ ExtractedCall.raised
  /\ ThoughtStart < ActStart
  /\ IsPrefix(ERROR_STRING, next_step.observation.val)

\* C5: the branch follows the first-occurrence offsets of the action and
\* finish markers, an absent marker standing at len(reply_text): action
\* marker first (and the call extracted), the step carries the extracted
\* call and no observation; finish marker first, the step is finished, has
\* no action and carries the final answer, whatever action marker follows.
C5_BranchByOffset ==
  Parsed =>
    /\ ActionFirst /\ ~ExtractedCall.raised
       => /\ next_step.action
               = <<FunctionCall(ExtractedCall.fn, ExtractedCall.args,
                                ExtractedCall.kwargs)>>
          /\ next_step.observation = None
    /\ FinishFirst
       => /\ next_step.is_finished
          /\ next_step.action = <<>>
          /\ next_step.observation.type = "str"
          /\ next_step.observation.val
               = FinalAnswer(llm_reply, FinishEnd, config.final_stop_sequence)

\* finish marker first, a well-formed action after it
C5_Witness ==
  /\ Parsed
  /\ FinishFirst
  /\ ActStart < Len(llm_reply)
  /\ ~ExtractedCall.raised
  /\ next_step.action = <<>>
  /\ next_step.is_finished

\* C6: the parser reports that neither marker was found exactly when both
\* the action marker and the finish marker are absent from the text.
C6_NeitherIffBothAbsent ==
  Parsed =>
    ( next_step = ErrorStep(NotFoundMessage(config))
      <=> /\ ~Contains(llm_reply, config.action_pattern)
          /\ ~Contains(llm_reply, config.finish_pattern) )

\* C7: on the action-first branch the step is finished exactly when the
\* extracted call is named Finish; its action is the extracted call, its
\* observation is absent and its format is the extractor's.
C7_ActionStep ==
  Parsed /\ ActionFirst /\ ~ExtractedCall.raised =>
    /\ next_step.is_finished <=> ExtractedCall.fn = <<"F", "i", "n", "i", "s", "h">>
    /\ Len(next_step.action) = 1
    /\ next_step.action[1].function_name = ExtractedCall.fn
    /\ next_step.action[1].args = ExtractedCall.args
    /\ next_step.action[1].kwargs = ExtractedCall.kwargs
    /\ next_step.observation = None
    /\ next_step.fmt = ExtractedCall.fmt

\* a call named Finish after the action marker
C7_Witness ==
  /\ Parsed
  /\ ActionFirst
  /\ ~ExtractedCall.raised
  /\ next_step.is_finished
  /\ next_step.thought # <<>>

\* C8 as stated: the observation is the text after the finish marker cut
\* at the first final_stop_sequence and then trimmed (the whole trimmed
\* text when no final_stop_sequence is configured).
C8_TruncatedThenTrimmed ==
  Parsed /\ FinishFirst =>
    next_step.observation.val
      = IF config.final_stop_sequence # <<>>
        THEN Strip(SplitFirst(AfterFinish, config.final_stop_sequence))
        ELSE Strip(AfterFinish)

\* C8 (amended): the text after the finish marker is trimmed first, then
\* cut at the first final_stop_sequence, then trimmed again; the observation
\* never contains final_stop_sequence and has no leading or trailing
\* whitespace; with no final_stop_sequence it is the whole trimmed text.
C8_FinalAnswer ==
  Parsed /\ FinishFirst =>
    /\ next_step.observation.val
         = IF config.final_stop_sequence # <<>>
           THEN Strip(SplitFirst(Strip(AfterFinish), config.final_stop_sequence))
           ELSE Strip(AfterFinish)
    /\ config.final_stop_sequence # <<>>
         => ~Contains(next_step.observation.val, config.final_stop_sequence)
    /\ Trimmed(next_step.observation.val)

\* an answer cut at a stop sequence that stands inside the trimmed text
C8_Witness ==
  /\ Parsed
  /\ FinishFirst
  /\ config.final_stop_sequence # <<>>
  /\ Contains(Strip(AfterFinish), config.final_stop_sequence)
  /\ next_step.observation.val # <<>>

\* C9: in the action-first and the finish-first branch the thought is the
\* trimmed text between the end of the thought marker and the start of the
\* chosen marker when the thought marker starts strictly before that marker,
\* and the empty string otherwise.
C9_ThoughtGating ==
  Parsed /\ ((ActionFirst /\ ~ExtractedCall.raised) \/ FinishFirst) =>
    LET chosen == IF ActionFirst THEN ActStart ELSE FinishStart
    IN  /\ ThoughtStart < chosen
           => next_step.thought = Strip(Slice(llm_reply, ThoughtEnd, chosen))
        /\ ~(ThoughtStart < chosen) => next_step.thought = <<>>
        /\ Trimmed(next_step.thought)

\* a thought before the finish marker, with whitespace beside it
C9_Witness ==
  /\ Parsed
  /\ FinishFirst
  /\ ThoughtStart < FinishStart
  /\ next_step.thought # <<>>
  /\ Len(next_step.thought) < FinishStart - ThoughtEnd

\* the observation carries the error marker
ErrorMarked(step) ==
  /\ step.observation.type = "str"
  /\ IsPrefix(ERROR_STRING \o <<":", " ">>, step.observation.val)

\* C13 as stated: a parsed step with no action and an observation is a
\* finish step: it is finished and its observation is the final answer.
C13_ActionlessIsFinish ==
  Parsed /\ next_step.action = <<>> /\ next_step.observation # None =>
    /\ next_step.is_finished
    /\ next_step.observation
         = Str(FinalAnswer(llm_reply, FinishEnd, config.final_stop_sequence))

\* C13 (amended): a parsed step with no action and an observation is either
\* a finish step (finished, the observation being the final answer after the
\* finish marker, which starts first) or a recovered error step (not
\* finished, the observation carrying the error marker).
C13_ActionlessIsFinishOrError ==
  Parsed /\ next_step.action = <<>> /\ next_step.observation # None =>
    IF ErrorMarked(next_step)
    THEN /\ ~next_step.is_finished
         /\ ~FinishFirst
    ELSE /\ next_step.is_finished
         /\ FinishFirst
         /\ next_step.observation.type = "str"
         /\ next_step.observation.val
              = IF config.final_stop_sequence = <<>>
                THEN Strip(AfterFinish)
                ELSE Strip(SplitFirst(Strip(AfterFinish),
                                      config.final_stop_sequence))

\* a finish step with a thought and a non-empty answer
C13_Witness ==
  /\ Parsed
  /\ next_step.action = <<>>
  /\ next_step.is_finished
  /\ next_step.thought # <<>>
  /\ next_step.observation.val # <<>>
  /\ ~ErrorMarked(next_step)

(***************************************************************************)
(* Further properties of the step loop (Spec)                              *)
(***************************************************************************)
\* C14: the prompt rendered for an iteration contains the error-marked
\* observation of every recovered parse-error step of the trajectory.
C14_ErrorResurfaced ==
  pc = "prompt" =>
    \A i \in 1..Len(updates) :
      ErrorMarked(updates[i]) /\ updates[i].action = <<>>
        => Contains(prompt_text, updates[i].observation.val)

\* C15: with no environment, _sample_single_next_step raises at once: no
\* prompt is rendered, the model, the parser and the tools are not called,
\* no step is returned and the trajectory is as it was.
C15_NoEnvironment ==
  environment = "None" =>
    /\ pc \in {"new", "idle", "raised"}
    /\ trace = <<>>
    /\ prompt_text = <<>>
    /\ next_step = DefaultStep
    /\ iterations = 0
    /\ updates = <<>>
    /\ pc = "idle" => ENABLED SampleNoEnvironment /\ ~ENABLED SampleStart
    /\ pc = "raised" =>
         /\ ReActState(inputs, updates) = state_before
         /\ inputs = request

\* the call on a state without an environment has raised
C15_Witness ==
  /\ environment = "None"
  /\ pc = "raised"
  /\ state_before = ReActState(request, <<>>)

\* run_tool has raised in the current iteration
ToolRaised == trace # <<>> /\ trace[Len(trace)].call = "tool_raised"

\* C16: when run_tool raises, the failure leaves _sample_single_next_step:
\* no step is returned or appended, no error observation is made of it, and
\* inputs and updates are what they were before the iteration.
C16_ToolFailurePropagates ==
  ToolRaised =>
    /\ pc = "raised"
    /\ ~ENABLED AppendStep
    /\ ReActState(inputs, updates) = state_before
    /\ iterations = Len(updates)
    /\ next_step.observation = None
    /\ \A i \in 1..Len(trace) : trace[i].call # "tool_result"

\* run_tool raises in a later iteration
C16_Witness ==
  /\ ToolRaised
  /\ pc = "raised"
  /\ Len(updates) >= 1
  /\ Len(trace) = 5

\* the run enclosed by start_environment has ended
Exited ==
  \/ pc \in {"raised", "cancelled"}
  \/ pc = "idle" /\ is_finished(updates)

InsideOrAborted == pc \in {"prompt", "tool", "return", "raised", "cancelled"}

\* C18: an iteration leaves inputs and every appended step as they were:
\* while _sample_single_next_step runs, and after it raised or was
\* cancelled, inputs and updates equal the state it was given (the tool
\* result is in the new step only); after the append, updates are the
\* updates it was given followed by exactly the one new step.
C18_AppendOnly ==
  /\ pc \notin {"new", "started"} => inputs = request
  /\ InsideOrAborted => ReActState(inputs, updates) = state_before
  /\ pc = "return" /\ trace[Len(trace)].call = "tool_result" =>
       next_step.observation = trace[Len(trace)].value
  /\ pc = "idle" /\ iterations > 0 =>
       /\ inputs = state_before.inputs
       /\ updates = Append(state_before.updates, next_step)

\* a tool result has been written into the step of a later iteration, the
\* earlier step holding another observation
C18_Witness ==
  /\ pc = "idle"
  /\ Len(updates) = 2
  /\ trace[Len(trace)].call = "tool_result"
  /\ updates[2].observation = trace[Len(trace)].value
  /\ updates[1].observation # updates[2].observation
  /\ updates[1] = state_before.updates[1]

\* the calls of the current iteration, in order
Calls == [i \in 1..Len(trace) |-> trace[i].call]

\* the calls of an iteration that returned a step
CompletedCalls ==
  IF force_finish THEN <<"prompt", "reply">>
  ELSE IF HasAction(next_step)
       THEN <<"prompt", "reply", "parse", "run_tool", "tool_result">>
       ELSE <<"prompt", "reply", "parse">>

\* C19: the events of an iteration are ordered: one model call, then one
\* tool call exactly when the parsed step has an action, its result awaited,
\* then the append of one step; the model call of the next iteration starts
\* from a state that holds the steps of all earlier iterations, so no two
\* appends overlap.
C19_IterationOrder ==
  /\ iterations = Len(updates)
  /\ pc = "prompt" =>
       /\ Calls = <<"prompt">>
       /\ Len(state_before.updates) = iterations
  /\ pc = "tool" =>
       /\ Calls = <<"prompt", "reply", "parse", "run_tool">>
       /\ HasAction(next_step)
       /\ Len(state_before.updates) = iterations
  /\ pc = "return" =>
       /\ Calls = CompletedCalls
       /\ Len(state_before.updates) = iterations
  /\ pc = "idle" /\ iterations > 0 =>
       /\ Calls = CompletedCalls
       /\ Len(state_before.updates) + 1 = iterations

\* the second iteration has called the tool and its step is appended
C19_Witness ==
  /\ pc = "idle"
  /\ iterations = 2
  /\ Calls = <<"prompt", "reply", "parse", "run_tool", "tool_result">>
  /\ Len(state_before.updates) = 1

(***************************************************************************)
(* Two trajectories advanced concurrently by one agent (ConcSpec)          *)
(***************************************************************************)
Tasks == {1, 2}

\* the question of each task
TaskInput(t) == IF t = 1 THEN <<"q">> ELSE <<"r">>

\* what the model may reply to a task: an action, a finishing action, and
\* a reply with neither marker
ConcReplies ==
  { ActMarker \o <<" ">> \o Search \o <<"\n">>,
    ActMarker \o <<" ">> \o FinishName \o <<"(", "x", ")">>,
    <<"t", " ">> }

\* one call of _sample_single_next_step as a coroutine of its own: the state
\* it was given (inputs, updates), its position, its locals, and what the
\* task has heard from the model and the tools, one entry per iteration
Task(state, at, forced, reply, step, heard, overlapped) ==
  [inputs |-> state.inputs, updates |-> state.updates, pc |-> at,
   force_finish |-> forced, llm_reply |-> reply, next_step |-> step,
   heard |-> heard, overlapped |-> overlapped]

Heard(reply, result) == [reply |-> reply, result |-> result]

\* task t takes a step and becomes rec; a task suspended in its model call
\* or tool call meanwhile has been overlapped
Advance(t, rec) ==
  [u \in Tasks |->
     IF u = t THEN rec
     ELSE IF tasks[u].pc \in {"prompt", "tool"}
          THEN [tasks[u] EXCEPT !.overlapped = TRUE]
          ELSE tasks[u]]

ConcInit ==
  /\ NoResults
  /\ inputs = <<>>
  /\ updates = <<>>
  /\ max_steps \in 0..MaxConcSteps
  /\ config = DefaultConfig
  /\ environment = "env"
  /\ pc = "conc"
  /\ force_finish = FALSE
  /\ llm_reply = <<>>
  /\ next_step = DefaultStep
  /\ trace = <<>>
  /\ iterations = 0
  /\ request = <<>>
  /\ output = NoOutput
  /\ prompt_text = <<>>
  /\ state_before = NoState
  /\ env_started = TRUE
  /\ stop_prefix = DefaultStopPrefix
  /\ stop_sequences = <<>>
  /\ tasks = [t \in Tasks |->
                Task(initialize_state(TaskInput(t)), "idle", FALSE, <<>>,
                     DefaultStep, <<>>, FALSE)]

ConcFrame ==
  UNCHANGED <<inputs, updates, max_steps, config, environment, pc,
              force_finish, llm_reply, next_step, trace, iterations, request,
              output, prompt_text, state_before, env_started, stop_prefix,
              stop_sequences,
                 results_vars>>

\* lines 562-574 for task t, up to the await of the prompt
ConcSampleStart(t) ==
  /\ tasks[t].pc = "idle"
  /\ Running(tasks[t].updates)
  /\ ~EnvironmentMissing(environment)
  /\ tasks' = Advance(t, [tasks[t] EXCEPT
                  !.force_finish = ForceFinish(tasks[t].updates, max_steps),
                  !.pc = "prompt"])
  /\ ConcFrame

\* the step PromptReturn builds from the reply
ConcStepOf(forced, reply) ==
  IF forced THEN ForcedStep(NormalizeReply(reply))
  ELSE react_parse(NormalizeReply(reply), config)

\* ConcPromptReturn with the new step kept in one slot shared by all tasks
ConcPromptReturnShared(t, reply) ==
  /\ tasks[t].pc = "prompt"
  /\ LET step == ConcStepOf(tasks[t].force_finish, reply)
         at == IF ~tasks[t].force_finish /\ HasAction(step)
               THEN "tool" ELSE "return"
         mine == [tasks[t] EXCEPT
                    !.llm_reply = NormalizeReply(reply),
                    !.next_step = step,
                    !.heard = Append(@, Heard(reply, <<>>)),
                    !.pc = at]
     IN  tasks' = [u \in Tasks |->
                     IF u = t THEN mine
                     ELSE [tasks[u] EXCEPT !.next_step = step]]
  /\ ConcFrame

\* lines 577-592 for task t, up to the await of run_tool or to the return
ConcPromptReturn(t, reply) ==
  /\ tasks[t].pc = "prompt"
  /\ LET step == ConcStepOf(tasks[t].force_finish, reply)
         at == IF ~tasks[t].force_finish /\ HasAction(step)
               THEN "tool" ELSE "return"
     IN  tasks' = Advance(t, [tasks[t] EXCEPT
                     !.llm_reply = NormalizeReply(reply),
                     !.next_step = step,
                     !.heard = Append(@, Heard(reply, <<>>)),
                     !.pc = at])
  /\ ConcFrame

\* lines 593-598 for task t
ConcToolReturn(t, value) ==
  /\ tasks[t].pc = "tool"
  /\ tasks' = Advance(t, [tasks[t] EXCEPT
                  !.next_step = WithObservation(@, value),
                  !.heard[Len(tasks[t].heard)].result = <<value>>,
                  !.pc = "return"])
  /\ ConcFrame

\* the loop of task t appends the returned step to the state of task t
ConcAppendStep(t) ==
  /\ tasks[t].pc = "return"
  /\ tasks' = Advance(t, [tasks[t] EXCEPT
                  !.updates = Append(@, tasks[t].next_step),
                  !.pc = "idle"])
  /\ ConcFrame

ConcNext ==
  \/ \E t \in Tasks : ConcSampleStart(t)
  \/ \E t \in Tasks, reply \in ConcReplies : ConcPromptReturn(t, reply)
  \/ \E t \in Tasks, value \in ToolValues : ConcToolReturn(t, value)
  \/ \E t \in Tasks : ConcAppendStep(t)

ConcSpec == ConcInit /\ [][ConcNext]_vars

(***************************************************************************)
(* Properties of concurrent trajectories (ConcSpec)                        *)
(***************************************************************************)
\* the step one iteration run alone returns from the updates it is given
\* and what it hears: lines 566-598
SampleAlone(state_updates, entry, n) ==
  LET step == ConcStepOf(ForceFinish(state_updates, n), entry.reply)
  IN  IF ~ForceFinish(state_updates, n) /\ HasAction(step)
      THEN WithObservation(step, entry.result[1])
      ELSE step

\* the updates of a trajectory run alone that hears log, one entry per
\* iteration
RECURSIVE RunAlone(_, _, _)
RunAlone(state_updates, log, n) ==
  IF log = <<>> THEN state_updates
  ELSE RunAlone(Append(state_updates, SampleAlone(state_updates, Head(log), n)),
                Tail(log), n)

\* the iterations of task t whose step is appended
Completed(t) ==
  IF tasks[t].pc \in {"tool", "return"}
  THEN SubSeq(tasks[t].heard, 1, Len(tasks[t].heard) - 1)
  ELSE tasks[t].heard

\* task t holds the steps it would hold when run alone
AsAlone(t) ==
  /\ tasks[t].inputs = TaskInput(t)
  /\ tasks[t].updates = RunAlone(<<>>, Completed(t), max_steps)
  /\ tasks[t].pc = "return" =>
       tasks[t].next_step =
         SampleAlone(tasks[t].updates, tasks[t].heard[Len(tasks[t].heard)],
                     max_steps)

\* a step of the agent changes the inputs and updates of no task other than
\* the one that takes it (the one whose position changes)
OthersUntouched ==
  \A t \in Tasks :
    tasks'[t].pc = tasks[t].pc =>
      /\ tasks'[t].inputs = tasks[t].inputs
      /\ tasks'[t].updates = tasks[t].updates

\* C20: two trajectories advanced concurrently by one agent, under every
\* interleaving of their model-call and tool-call suspension points: a step
\* of one never changes the inputs or updates of the other, and each holds
\* at every point, and so at its end, the steps it would hold when run alone
\* with the same replies and tool results.
C20_Independent ==
  /\ [](pc = "conc" => \A t \in Tasks : AsAlone(t))
  /\ [][pc = "conc" => OthersUntouched]_vars

\* both trajectories have ended, each was overlapped by the other while
\* suspended, and they hold different steps
C20_Witness ==
  /\ pc = "conc"
  /\ \A t \in Tasks :
       /\ tasks[t].pc = "idle"
       /\ is_finished(tasks[t].updates)
       /\ tasks[t].overlapped
  /\ Len(tasks[1].updates) = 2
  /\ tasks[1].updates[1].observation = Str(<<"o">>)
  /\ Len(tasks[2].updates) = 1
  /\ tasks[2].updates[1].observation = None

(***************************************************************************)
(* Further properties of the step loop (Spec), continued                   *)
(***************************************************************************)
\* the call has prompted the model in the current iteration
Prompted == pc \in {"prompt", "tool", "return"} \/ (pc = "idle" /\ iterations > 0)

\* C21: the stop sequences passed to the prompt in every iteration are the
\* single marker "[" followed by stop_prefix when stop_prefix is non-empty,
\* and otherwise exactly the two markers [Question] and [Observe].
C21_StopSequences ==
  Prompted =>
    IF stop_prefix # <<>>
    THEN /\ Len(stop_sequences) = 1
         /\ stop_sequences[1] = <<"[">> \o stop_prefix
    ELSE /\ Len(stop_sequences) = 2
         /\ stop_sequences[1] = <<"[", "Q", "u", "e", "s", "t", "i", "o", "n", "]">>
         /\ stop_sequences[2] = <<"[", "O", "b", "s", "e", "r", "v", "e", "]">>

\* a forced iteration of an agent with a stop prefix has prompted
C21_Witness ==
  /\ pc = "prompt"
  /\ force_finish
  /\ iterations >= 1
  /\ stop_prefix = <<"#">>
  /\ stop_sequences = << <<"[", "#">> >>

LastIndex == Len(updates) - 1

Appended == pc = "idle" /\ iterations > 0

\* a finished step with empty thought and no action
BareFinish(step) == step.is_finished /\ step.thought = <<>> /\ step.action = <<>>

\* C23 as stated: len(updates) <= max_steps + 1, a step at an index below
\* max_steps is never a forced-finish step, and a step at index max_steps is
\* finished with empty thought and no action.
C23_BudgetAsStated ==
  /\ Len(updates) <= max_steps + 1
  /\ Appended /\ LastIndex < max_steps => ~LastWasForced
  /\ \A i \in 1..Len(updates) : i - 1 = max_steps => BareFinish(updates[i])

\* C23 (amended): with N = max_steps, len(updates) <= max(N, 0) + 1; a step
\* at an index below N was parsed, not forced (an error step counts like any
\* other); a step at index max(N, 0) is the forced finish, finished with
\* empty thought and no action; so a trajectory whose parsed steps never
\* finish is max(N, 0) unfinished parsed steps and one forced-finish step.
C23_Budget ==
  /\ Len(updates) <= Max(max_steps, 0) + 1
  /\ Appended /\ LastIndex < max_steps =>
       /\ ~LastWasForced
       /\ Len(trace) >= 3
       /\ trace[3] = ParseEvent
  /\ Appended /\ LastIndex >= max_steps => LastWasForced
  /\ \A i \in 1..Len(updates) :
       i - 1 = Max(max_steps, 0) => BareFinish(updates[i])
  /\ LastWasForced =>
       /\ Len(updates) = Max(max_steps, 0) + 1
       /\ \A i \in 1..(Len(updates) - 1) : ~updates[i].is_finished

\* an error step and an action step use the budget of two, then the forced
\* finish
C23_Witness ==
  /\ max_steps = 2
  /\ Len(updates) = 3
  /\ LastWasForced
  /\ ErrorMarked(updates[1]) /\ updates[1].action = <<>>
  /\ updates[2].action # <<>>
  /\ BareFinish(updates[3])

(***************************************************************************)
(* The Finish action and the extracted output (Spec)                       *)
(***************************************************************************)
\* the reply of the current iteration was parsed to a call named Finish
FinishCalled ==
  /\ pc \in {"tool", "return"} \/ Appended
  /\ ~force_finish
  /\ LET parsed == react_parse(llm_reply, config)
     IN  /\ ActionFirst
         /\ HasAction(parsed)
         /\ parsed.action[1].function_name = FinishName

\* C24: a reply parsed action-first to a call named Finish gives a finished
\* step that carries the action, so run_tool is called with the name Finish
\* and the call's arguments; the observation of the step, and the output
\* extracted from the then FINISHED trajectory, is the string form of what
\* run_tool returned.
C24_FinishActionRunsTool ==
  FinishCalled =>
    /\ next_step.is_finished
    /\ HasAction(next_step)
    /\ Len(trace) >= 4
    /\ trace[4] = RunToolEvent(next_step.action[1])
    /\ trace[4].fn = FinishName
    /\ pc = "tool" => Len(trace) = 4 /\ next_step.observation = None
    /\ pc # "tool" =>
         /\ Len(trace) = 5
         /\ trace[5].call = "tool_result"
         /\ next_step.observation = trace[5].value
    /\ Appended =>
         /\ is_finished(updates)
         /\ updates[Len(updates)] = next_step
         /\ extract_output(updates) = Str(PyStr(trace[5].value))
         /\ output.called /\ output.state = ReActState(inputs, updates)
              => output.value = Str(PyStr(trace[5].value))

\* Finish(x) was called as a tool and returned o: the output is o, not x
C24_Witness ==
  /\ FinishCalled
  /\ Appended
  /\ Len(updates) = 2
  /\ next_step.action[1].args # <<>>
  /\ next_step.action[1].args[1] # Str(<<"o">>)
  /\ trace[5].value = Str(<<"o">>)
  /\ output.called
  /\ output.state = ReActState(inputs, updates)
  /\ output.value = Str(<<"o">>)

(***************************************************************************)
(* The forced finish against a clean finish (Spec)                         *)
(***************************************************************************)
\* the step an iteration that is not forced returns for reply, the tool
\* returning value: lines 586-598
CleanStep(reply, value) ==
  LET parsed == react_parse(NormalizeReply(reply), config)
  IN  IF HasAction(parsed) THEN WithObservation(parsed, value) ELSE parsed

\* the last steps of the cleanly finished trajectories
CleanFinishSteps ==
  {step \in {CleanStep(reply, value) : reply \in Replies, value \in ToolValues} :
     step.is_finished}

\* C25 as stated: the last step of a force-finished trajectory differs from
\* the last step of every cleanly finished trajectory.
C25_ForcedDistinguishable ==
  Appended /\ LastWasForced => next_step \notin CleanFinishSteps

\* C25 (amended): the last step of a force-finished trajectory has no action
\* and so differs from every action-derived Finish step; it equals a
\* finish-marker step exactly when that step has an empty thought and the
\* same observation, and then the two records cannot be told apart.
C25_ForcedVersusClean ==
  Appended /\ LastWasForced =>
    /\ updates[Len(updates)] = next_step
    /\ ~HasAction(next_step)
    /\ \A step \in CleanFinishSteps :
         /\ HasAction(step) => step # next_step
         /\ ~HasAction(step) =>
              (step = next_step <=>
                 /\ step.thought = <<>>
                 /\ step.observation = next_step.observation)

\* a forced step equal to the step of a finish-marker reply, next to an
\* action-derived Finish step and a finish-marker step with a thought
C25_Witness ==
  /\ Appended
  /\ LastWasForced
  /\ Len(updates) = 2
  /\ next_step \in CleanFinishSteps
  /\ \E step \in CleanFinishSteps : HasAction(step)
  /\ llm_reply # FinishMarker \o <<" ">> \o next_step.observation.val \o <<"\n">>

(***************************************************************************)
(* The output of a state without an answer (Spec)                          *)
(***************************************************************************)
\* str(None)
NoneText == Str(<<"N", "o", "n", "e">>)

\* the state is finished and the observation of its last step is None
FinishedWithNone(state) ==
  /\ is_finished(state.updates)
  /\ state.updates[Len(state.updates)].observation = None

\* C26: extract_output returns the string form of None both for a state
\* that is not FINISHED and for a FINISHED state whose last observation is
\* None, so the returned text does not tell the two apart.
C26_NoneTextCollapses ==
  /\ ~is_finished(updates) => extract_output(updates) = NoneText
  /\ FinishedWithNone(ReActState(inputs, updates))
       => extract_output(updates) = NoneText
  /\ output.called /\ ~is_finished(output.state.updates)
       => output.value = NoneText
  /\ output.called /\ FinishedWithNone(output.state)
       => output.value = NoneText

\* the output of a run finished by a Finish action whose tool returned None
\* is the output of the state the run started from
C26_Witness ==
  /\ output.called
  /\ FinishedWithNone(output.state)
  /\ HasAction(output.state.updates[Len(output.state.updates)])
  /\ output.value = extract_output(initialize_state(inputs).updates)
  /\ ~is_finished(initialize_state(inputs).updates)

(***************************************************************************)
(* A budget that is not positive (Spec)                                    *)
(***************************************************************************)
\* C27: with max_steps <= 0 the first iteration on the empty trajectory is
\* the forced finish: the trajectory is FINISHED after exactly one iteration
\* with a single finished step without action, and neither the parser nor a
\* tool is called.
C27_NoBudget ==
  max_steps <= 0 =>
    /\ iterations <= 1
    /\ pc \in {"prompt", "return"} => force_finish /\ updates = <<>>
    /\ pc # "tool"
    /\ \A i \in 1..Len(trace) :
         trace[i].call \notin {"parse", "run_tool", "tool_result", "tool_raised"}
    /\ Appended =>
         /\ iterations = 1
         /\ Len(updates) = 1
         /\ BareFinish(updates[1])
         /\ is_finished(updates)
         /\ LastWasForced
         /\ ~ENABLED SampleStart

\* the reply of the only iteration held an action, which was not parsed
C27_Witness ==
  /\ max_steps = 0
  /\ Appended
  /\ Contains(llm_reply, ActMarker \o <<" ">> \o Search)
  /\ updates[1].observation.val = Strip(llm_reply)
  /\ updates[1].action = <<>>

(***************************************************************************)
(* The thought of a rejected call (ParseSpec)                              *)
(***************************************************************************)
\* the call ended in the except clause: the extractor rejected the call
\* after the action marker, or neither branch was taken
Recovered ==
  /\ Parsed
  /\ \/ ActionFirst /\ ExtractedCall.raised
     \/ ~ActionFirst /\ ~FinishFirst

\* the thought the action-first branch had extracted before the extractor
\* raised
LostThought == Strip(Slice(llm_reply, ThoughtEnd, ActStart))

\* C28: a recovered error step has an empty thought and no format; when the
\* thought marker precedes the action marker and the call is malformed, the
\* thought already extracted is dropped: the step is the one returned for
\* the reply cut to start at the action marker.
C28_ThoughtDiscarded ==
  Recovered =>
    /\ next_step.thought = <<>>
    /\ next_step.fmt = "None"
    /\ next_step.action = <<>>
    /\ ActionFirst /\ ThoughtStart < ActStart =>
         next_step = react_parse(Slice(llm_reply, ActStart, Len(llm_reply)),
                                 config)

\* a thought before the action marker, and a call the extractor rejects
C28_Witness ==
  /\ Recovered
  /\ ActionFirst
  /\ ThoughtStart < ActStart
  /\ LostThought # <<>>
  /\ ~Contains(next_step.observation.val, LostThought)
  /\ next_step.thought = <<>>

(***************************************************************************)
(* Properties of the direct call (DirectSpec)                              *)
(***************************************************************************)
\* the call was given a finished state with budget left
GivenFinished == is_finished(updates) /\ Len(updates) < max_steps

\* C29: _sample_single_next_step does not look at whether the state it is
\* given is FINISHED: on a state whose last step is finished and with
\* len(updates) < max_steps it prompts the model, parses the reply, runs the
\* tool of an action and returns a new step; appended, that step would
\* follow a finished step.
C29_NoFinishedCheck ==
  /\ pc = "idle" => ENABLED SampleDirect
  /\ GivenFinished /\ pc # "idle" =>
       /\ ~force_finish
       /\ trace[1] = PromptEvent
       /\ state_before = ReActState(inputs, updates)
       /\ pc = "tool" => next_step = react_parse(llm_reply, config)
       /\ pc = "return" =>
            /\ trace[3] = ParseEvent
            /\ \E value \in ToolValues :
                 next_step = CleanStep(trace[2].value.val, value)
            /\ LET appended == Append(updates, next_step)
               IN  \E i \in 1..(Len(appended) - 1) : appended[i].is_finished

\* on a finished state the call has run a tool and returns an unfinished
\* step
C29_Witness ==
  /\ GivenFinished
  /\ Len(updates) = 2
  /\ pc = "return"
  /\ Len(trace) = 5
  /\ ~next_step.is_finished
  /\ next_step.observation = Str(<<"o">>)

(***************************************************************************)
(* results.py: objects by identity                                         *)
(***************************************************************************)
\* a value is an immutable atom or a reference to an object of the heap
Atom(text) == [tag |-> "atom", at |-> 0, s |-> text]

Ref(address) == [tag |-> "ref", at |-> address, s |-> ""]

\* an object: a dict by key, a list by index ("0", "1", ...), or a
\* dataclass instance by field name
Obj(kind, items) == [kind |-> kind, items |-> items]

NoItems == [k \in {} |-> Atom("")]

\* line 54
VALUES_FOR_LIST_METRICS == "values_for_list_metrics"

\* lines 366-367
input_fields_to_omit == {"exemplar", "original", "record_id"}

output_fields_to_omit == {VALUES_FOR_LIST_METRICS}

\* the addresses an object refers to
RefsOf(obj) ==
  {obj.items[k].at : k \in {j \in DOMAIN obj.items : obj.items[j].tag = "ref"}}

\* the objects reachable from a set of addresses
RECURSIVE ReachFrom(_, _)
ReachFrom(h, addresses) ==
  LET further == addresses \cup UNION {RefsOf(h[a]) : a \in addresses}
  IN  IF further = addresses THEN addresses ELSE ReachFrom(h, further)

\* the highest address in use
Top(h) == IF DOMAIN h = {} THEN 0 ELSE CHOOSE a \in DOMAIN h : \A b \in DOMAIN h : b <= a

\* copy.copy: a new instance with the same field values, so that the
\* objects the fields refer to are shared with the original
shallowcopy(h, root) ==
  [heap |-> [a \in DOMAIN h \cup {Top(h) + 1} |->
               IF a \in DOMAIN h THEN h[a] ELSE h[root]],
   root |-> Top(h) + 1]

\* line 358, copy.deepcopy: a new object for every object reachable from
\* root, referring to the new objects in the same way
deepcopy(h, root) ==
  LET reached == ReachFrom(h, {root})
      top == Top(h)
      moved(v) == IF v.tag = "ref" THEN Ref(v.at + top) ELSE v
      copied(obj) == Obj(obj.kind, [k \in DOMAIN obj.items |-> moved(obj.items[k])])
  IN  [heap |-> [a \in DOMAIN h \cup {b + top : b \in reached} |->
                   IF a \in DOMAIN h THEN h[a] ELSE copied(h[a - top])],
       root |-> root + top]

\* line 359: a new empty list is bound to the field stages of the record
WithEmptyStages(h, record) ==
  LET fresh == Top(h) + 1
  IN  [a \in DOMAIN h \cup {fresh} |->
         IF a = fresh THEN Obj("list", NoItems)
         ELSE IF a = record
              THEN Obj(h[a].kind, [h[a].items EXCEPT !["stages"] = Ref(fresh)])
              ELSE h[a]]

\* lines 369-374: del mapping[key] for each of the keys the mapping holds
WithoutKeys(h, mapping, omitted) ==
  [h EXCEPT ![mapping] =
     Obj(@.kind, [k \in DOMAIN @.items \ omitted |-> @.items[k]])]

(***************************************************************************)
(* ExperimentResult.to_compact_record (CompactSpec)                        *)
(***************************************************************************)
\* the keys the inputs and the outputs of a record may hold
InputKeys == input_fields_to_omit \cup {"question"}

OutputKeys == output_fields_to_omit \cup {"answer"}

Indices == <<"0", "1", "2", "3", "4", "5">>

\* the fields of ExecutionResult (lines 106-125) and, with targets and
\* metrics, of ExperimentResult (lines 346-353)
StageFields == {"stage_name", "inputs", "outputs", "stages", "error", "info"}

RecordFields == StageFields \cup {"targets", "metrics"}

\* the address of stage i (from 0) of the record, followed by those of its
\* inputs, outputs, stages and info
StageAt(i) == 11 + 5 * i

\* an inner stage: its inputs hold a key that the compact record omits
StageObjects(i) ==
  [a \in StageAt(i)..(StageAt(i) + 4) |->
     CASE a = StageAt(i) ->
            Obj("ExecutionResult",
                [f \in StageFields |->
                   CASE f = "stage_name" -> Atom("stage")
                     [] f = "inputs" -> Ref(StageAt(i) + 1)
                     [] f = "outputs" -> Ref(StageAt(i) + 2)
                     [] f = "stages" -> Ref(StageAt(i) + 3)
                     [] f = "error" -> Atom("")
                     [] f = "info" -> Ref(StageAt(i) + 4)])
       [] a = StageAt(i) + 1 -> Obj("dict", [k \in {"exemplar"} |-> Atom("e")])
       [] a = StageAt(i) + 2 -> Obj("dict", [k \in {"answer"} |-> Atom("a")])
       [] a = StageAt(i) + 3 -> Obj("list", NoItems)
       [] a = StageAt(i) + 4 -> Obj("dict", NoItems)]

\* an ExperimentResult at address 1 whose inputs hold in_keys, whose outputs
\* hold out_keys and which has n stages; the values of original, question
\* and values_for_list_metrics are mappings themselves
ResultHeap(in_keys, out_keys, n) ==
  LET fixed ==
        {1, 2, 3, 4, 5, 6, 7}
          \cup (IF "original" \in in_keys THEN {8} ELSE {})
          \cup (IF "question" \in in_keys THEN {9} ELSE {})
          \cup (IF VALUES_FOR_LIST_METRICS \in out_keys THEN {10} ELSE {})
      staged == UNION {StageAt(i)..(StageAt(i) + 4) : i \in 0..(n - 1)}
      object(a) ==
        CASE a = 1 ->
               Obj("ExperimentResult",
                   [f \in RecordFields |->
                      CASE f = "stage_name" -> Atom("")
                        [] f = "inputs" -> Ref(2)
                        [] f = "outputs" -> Ref(3)
                        [] f = "stages" -> Ref(4)
                        [] f = "error" -> Atom("")
                        [] f = "info" -> Ref(5)
                        [] f = "targets" -> Ref(6)
                        [] f = "metrics" -> Ref(7)])
          [] a = 2 ->
               Obj("dict",
                   [k \in in_keys |->
                      CASE k = "original" -> Ref(8)
                        [] k = "question" -> Ref(9)
                        [] OTHER -> Atom(k)])
          [] a = 3 ->
               Obj("dict",
                   [k \in out_keys |->
                      IF k = VALUES_FOR_LIST_METRICS THEN Ref(10) ELSE Atom(k)])
          [] a = 4 -> Obj("list", [k \in {Indices[i + 1] : i \in 0..(n - 1)} |->
                                     Ref(StageAt(CHOOSE i \in 0..(n - 1) :
                                                   Indices[i + 1] = k))])
          [] a = 5 -> Obj("dict", [k \in {"record_id"} |-> Atom("7")])
          [] a = 6 -> Obj("dict", [k \in {"answer"} |-> Atom("a")])
          [] a = 7 -> Obj("dict", [k \in {"accuracy"} |-> Atom("1")])
          [] a = 8 -> Obj("dict", [k \in {"question", "record_id"} |-> Atom(k)])
          [] a = 9 -> Obj("dict", [k \in {"exemplar"} |-> Atom("e")])
          [] a = 10 -> Obj("dict", [k \in {"answer"} |-> Atom("a")])
          [] OTHER -> StageObjects((a - 11) \div 5)[a]
  IN  [a \in fixed \cup staged |-> object(a)]

CompactInit ==
  /\ heap \in {ResultHeap(in_keys, out_keys, n) :
                  in_keys \in SUBSET InputKeys, out_keys \in SUBSET OutputKeys,
                  n \in 0..MaxStages}
  /\ self_record = 1
  /\ record_compact = 0
  /\ heap_before = <<>>
  /\ leaf_results = <<>>
  /\ inputs = <<>>
  /\ updates = <<>>
  /\ max_steps = 0
  /\ config = DefaultConfig
  /\ environment = "env"
  /\ pc = "record"
  /\ force_finish = FALSE
  /\ llm_reply = <<>>
  /\ next_step = DefaultStep
  /\ trace = <<>>
  /\ iterations = 0
  /\ request = <<>>
  /\ output = NoOutput
  /\ prompt_text = <<>>
  /\ stop_prefix = DefaultStopPrefix
  /\ stop_sequences = <<>>
  /\ state_before = NoState
  /\ env_started = FALSE
  /\ tasks = <<>>

\* lines 356-375
to_compact_record(h, record) ==
  LET copy == deepcopy(h, record)
      emptied == WithEmptyStages(copy.heap, copy.root)
      trimmed == WithoutKeys(emptied, emptied[copy.root].items["inputs"].at,
                             input_fields_to_omit)
  IN  [heap |-> WithoutKeys(trimmed, trimmed[copy.root].items["outputs"].at,
                            output_fields_to_omit),
       root |-> copy.root]

ToCompactRecord ==
  /\ pc = "record"
  /\ heap_before' = heap
  /\ heap' = to_compact_record(heap, self_record).heap
  /\ record_compact' = to_compact_record(heap, self_record).root
  /\ pc' = "compacted"
  /\ UNCHANGED <<inputs, updates, max_steps, config, environment,
                 force_finish, llm_reply, next_step, trace, iterations,
                 request, output, prompt_text, state_before, env_started,
                 tasks, stop_prefix, stop_sequences, self_record,
                 leaf_results>>

CompactNext == ToCompactRecord

CompactSpec == CompactInit /\ [][CompactNext]_vars

(***************************************************************************)
(* Properties of to_compact_record (CompactSpec)                           *)
(***************************************************************************)
\* every key and field, in a fixed order
KeyOrder ==
  <<"0", "1", "2", "3", "accuracy", "answer", "error", "exemplar", "info",
    "inputs", "metrics", "original", "outputs", "question", "record_id",
    "stage_name", "stages", "targets", "values_for_list_metrics">>

\* the value v of heap h written out in full, whatever the identity of the
\* objects it is made of: two values are equal (==) when written alike
RECURSIVE Written(_, _)
RECURSIVE WrittenItems(_, _, _)
Written(h, v) ==
  IF v.tag = "atom" THEN <<v.s>>
  ELSE <<h[v.at].kind, "{">> \o WrittenItems(h, h[v.at].items, KeyOrder) \o <<"}">>

WrittenItems(h, items, keys) ==
  IF keys = <<>> THEN <<>>
  ELSE (IF Head(keys) \in DOMAIN items
        THEN <<Head(keys)>> \o Written(h, items[Head(keys)])
        ELSE <<>>)
       \o WrittenItems(h, items, Tail(keys))

Compacted == pc = "compacted"

\* field f of the record the call was made on, before the call, and of the
\* record it returned
FieldBefore(f) == heap_before[self_record].items[f]

FieldAfter(f) == heap[record_compact].items[f]

\* mapping field f of the returned record is that of the original without
\* the omitted keys
Omits(f, omitted) ==
  LET before == heap_before[FieldBefore(f).at].items
      after == heap[FieldAfter(f).at].items
  IN  /\ DOMAIN after = DOMAIN before \ omitted
      /\ \A k \in DOMAIN after :
           Written(heap, after[k]) = Written(heap_before, before[k])

\* C30: to_compact_record returns a new record with no stages, whose inputs
\* lack exemplar, original and record_id, whose outputs lack
\* values_for_list_metrics, and which otherwise equals the original; every
\* object of the original, at any depth, is as it was, and the new record
\* shares no object with it.
C30_CompactRecord ==
  Compacted =>
    /\ record_compact \notin DOMAIN heap_before
    /\ heap[record_compact].kind = heap_before[self_record].kind
    /\ DOMAIN heap[record_compact].items = RecordFields
    /\ heap[FieldAfter("stages").at] = Obj("list", NoItems)
    /\ Omits("inputs", input_fields_to_omit)
    /\ Omits("outputs", output_fields_to_omit)
    /\ \A f \in RecordFields \ {"stages", "inputs", "outputs"} :
         Written(heap, FieldAfter(f)) = Written(heap_before, FieldBefore(f))
    /\ \A a \in DOMAIN heap_before : a \in DOMAIN heap /\ heap[a] = heap_before[a]
    /\ ReachFrom(heap, {record_compact}) \cap DOMAIN heap_before = {}

\* a record with stages and all the omitted keys, a kept key whose value
\* holds a key named like an omitted one
C30_Witness ==
  /\ Compacted
  /\ DOMAIN heap_before[FieldBefore("inputs").at].items = InputKeys
  /\ DOMAIN heap_before[FieldBefore("outputs").at].items = OutputKeys
  /\ DOMAIN heap_before[FieldBefore("stages").at].items # {}
  /\ DOMAIN heap[FieldAfter("inputs").at].items = {"question"}
  /\ "exemplar" \in DOMAIN heap[heap[FieldAfter("inputs").at].items["question"].at].items
  /\ DOMAIN heap[FieldAfter("outputs").at].items = {"answer"}
  /\ "record_id" \in DOMAIN heap[FieldAfter("info").at].items

(***************************************************************************)
(* ExecutionResult.get_leaf_results (LeafSpec)                             *)
(***************************************************************************)
\* the address of node i (from 0) of a result tree, followed by those of
\* its inputs, outputs, stages and info
NodeAt(i) == 5 * i + 1

\* the shapes of a tree of n nodes: the parent of each node but node 0
Parents(n) == {f \in [1..(n - 1) -> 0..(n - 2)] : \A j \in 1..(n - 1) : f[j] < j}

\* the children of node i, and the one at index k of its stages: in the
\* order of the addresses, or against it
Kids(parent, i) == {j \in DOMAIN parent : parent[j] = i}

KidAt(parent, i, k, down) ==
  CHOOSE j \in Kids(parent, i) :
    Cardinality({m \in Kids(parent, i) : IF down THEN m > j ELSE m < j}) = k

\* a tree of ExecutionResult objects of the given shape
TreeHeap(parent, n, down) ==
  [a \in 1..(5 * n) |->
     LET i == (a - 1) \div 5
         part == (a - 1) % 5
     IN  CASE part = 0 ->
                Obj("ExecutionResult",
                    [f \in StageFields |->
                       CASE f = "stage_name" -> Atom(Indices[i + 1])
                         [] f = "inputs" -> Ref(a + 1)
                         [] f = "outputs" -> Ref(a + 2)
                         [] f = "stages" -> Ref(a + 3)
                         [] f = "error" -> Atom("")
                         [] f = "info" -> Ref(a + 4)])
           [] part = 3 ->
                Obj("list",
                    [k \in {Indices[m] : m \in 1..Cardinality(Kids(parent, i))} |->
                       Ref(NodeAt(KidAt(parent, i,
                                        CHOOSE m \in 0..(n - 1) : Indices[m + 1] = k,
                                        down)))])
           [] OTHER -> Obj("dict", NoItems)]

LeafInit ==
  /\ \E n \in 1..MaxNodes :
       /\ heap \in {TreeHeap(parent, n, down) :
                       parent \in Parents(n), down \in BOOLEAN}
       /\ self_record \in {NodeAt(i) : i \in 0..(n - 1)}
  /\ record_compact = 0
  /\ heap_before = <<>>
  /\ leaf_results = <<>>
  /\ inputs = <<>>
  /\ updates = <<>>
  /\ max_steps = 0
  /\ config = DefaultConfig
  /\ environment = "env"
  /\ pc = "tree"
  /\ force_finish = FALSE
  /\ llm_reply = <<>>
  /\ next_step = DefaultStep
  /\ trace = <<>>
  /\ iterations = 0
  /\ request = <<>>
  /\ output = NoOutput
  /\ prompt_text = <<>>
  /\ stop_prefix = DefaultStopPrefix
  /\ stop_sequences = <<>>
  /\ state_before = NoState
  /\ env_started = FALSE
  /\ tasks = <<>>

\* self.stages of a node: the items of its list of stages
StagesOf(h, node) == h[h[node].items["stages"].at].items

RECURSIVE get_leaf_results(_, _)
RECURSIVE ExtendFrom(_, _, _)

\* ExtendFrom going through the stages from the last to the first
ExtendFromLast(h, stages, i) ==
  IF i >= Len(Indices) \/ Indices[i + 1] \notin DOMAIN stages THEN <<>>
  ELSE ExtendFrom(h, stages, i + 1)
         \o get_leaf_results(h, stages[Indices[i + 1]].at)

\* lines 136-137: the loop over the stages, from index i on
ExtendFrom(h, stages, i) ==
  IF i >= Len(Indices) \/ Indices[i + 1] \notin DOMAIN stages THEN <<>>
  ELSE get_leaf_results(h, stages[Indices[i + 1]].at)
         \o ExtendFrom(h, stages, i + 1)

\* lines 132-140
get_leaf_results(h, node) ==
  IF DOMAIN StagesOf(h, node) # {}
  THEN ExtendFrom(h, StagesOf(h, node), 0)
  ELSE <<node>>

GetLeafResults ==
  /\ pc = "tree"
  /\ heap_before' = heap
  /\ leaf_results' = get_leaf_results(heap, self_record)
  /\ pc' = "leaves"
  /\ UNCHANGED <<inputs, updates, max_steps, config, environment,
                 force_finish, llm_reply, next_step, trace, iterations,
                 request, output, prompt_text, state_before, env_started,
                 tasks, stop_prefix, stop_sequences, heap, self_record,
                 record_compact>>

LeafNext == GetLeafResults

LeafSpec == LeafInit /\ [][LeafNext]_vars

(***************************************************************************)
(* Properties of get_leaf_results (LeafSpec)                               *)
(***************************************************************************)
Listed == pc = "leaves"

\* the nodes of the tree under the node the call was made on, itself
\* included
TreeNodes ==
  {a \in ReachFrom(heap, {self_record}) : heap[a].kind = "ExecutionResult"}

\* the nodes of that tree without stages
LeafNodes == {a \in TreeNodes : DOMAIN StagesOf(heap, a) = {}}

\* the node that holds node among its stages, and the index it has there
HolderOf(node) ==
  CHOOSE a \in TreeNodes :
    \E k \in DOMAIN StagesOf(heap, a) : StagesOf(heap, a)[k].at = node

IndexOf(node) ==
  CHOOSE i \in 1..Len(Indices) :
    /\ Indices[i] \in DOMAIN StagesOf(heap, HolderOf(node))
    /\ StagesOf(heap, HolderOf(node))[Indices[i]].at = node

\* the indices that lead from the node the call was made on down to node
RECURSIVE PathTo(_)
PathTo(node) ==
  IF node = self_record THEN <<>>
  ELSE Append(PathTo(HolderOf(node)), IndexOf(node))

\* depth-first, left to right: the paths part, and p takes the stage more
\* to the left
Leftward(p, q) ==
  \E k \in 1..Min(Len(p), Len(q)) :
    /\ SubSeq(p, 1, k - 1) = SubSeq(q, 1, k - 1)
    /\ p[k] < q[k]

\* C31: get_leaf_results returns exactly the nodes without stages of the
\* tree under the node it is called on, each once, in depth-first
\* left-to-right order; on a node without stages, the list of that node
\* alone.
C31_LeafResults ==
  Listed =>
    /\ {leaf_results[i] : i \in 1..Len(leaf_results)} = LeafNodes
    /\ Len(leaf_results) = Cardinality(LeafNodes)
    /\ \A i, j \in 1..Len(leaf_results) :
         i < j => Leftward(PathTo(leaf_results[i]), PathTo(leaf_results[j]))
    /\ DOMAIN StagesOf(heap, self_record) = {} => leaf_results = <<self_record>>
    /\ heap = heap_before

\* leaves at different depths, listed against the order of their addresses,
\* with a node that has stages left out
C31_Witness ==
  /\ Listed
  /\ Len(leaf_results) = 3
  /\ Cardinality(TreeNodes) = 5
  /\ Len(PathTo(leaf_results[1])) = 2
  /\ Len(PathTo(leaf_results[3])) = 1
  /\ leaf_results[1] > leaf_results[2]
  /\ self_record \notin LeafNodes

====
